---- MODULE Spec2Model ----
(***************************************************************************)
(* ViewerBot (src/backend/app.py): the task / worker-pool lifecycle.       *)
(*                                                                         *)
(* Threads of the program and how they are modelled:                       *)
(*   - the event loop runs one request handler at a time (the handlers are *)
(*     "async def" without an await), so there is one handler record;      *)
(*     start_bot and get_status touch shared state in one place and are    *)
(*     one step each, stop_bot and cleanup_resources are several steps,    *)
(*     because the bot threads run between their statements;               *)
(*   - one thread per start request runs ViewerBot.run (rpc);              *)
(*   - one pool thread per worker runs ViewerBot.worker (wpc).             *)
(* A step boundary is placed before every access to a shared dictionary    *)
(* (running_tasks, task_stop_flags, active_drivers) or to a driver that    *)
(* another thread may quit.  Purely local statements are merged into the   *)
(* preceding step.                                                         *)
(***************************************************************************)
EXTENDS Integers, Sequences, FiniteSets, TLC

(* ------------------------------ bounds -------------------------------- *)

\* start requests accepted in one behaviour of MultiSpec
MaxStarts == 2
\* the last second of the clock that int(time.time()) reads (first is 0)
MaxClock == 1
\* the largest parallel_browsers a request asks for
MaxBrowsers == 2
\* the short tasks are those of 1..MaxShort iterations
MaxShort == 2
\* iterations * parallel_browsers of one request
MaxWork == 22
\* the largest iterations SplitSpec hands to the split
MaxSplit == 60
\* StopSpec counts a worker's iterations after a stop up to
MaxFurther == 2

(* ------------------------- program constants -------------------------- *)

\* "Update progress every 10 iterations": current % 10 == 0
ProgressEvery == 10
\* validate_iterations: v <= 0 or v > 10000 is rejected
IterationsLimit == 10000
\* validate_parallel_browsers: v < 1 or v > 10 is rejected
BrowsersLimit == 10

Bots == 1..MaxStarts
Workers == 1..MaxBrowsers
TaskIds == 0..MaxClock
Drivers == Bots \X Workers

\* The start requests of Spec: a short task, or one just long enough for a
\* publish at current % 10 == 0 to be followed by another one.
Requests ==
    {r \in ((1..MaxShort) \cup {ProgressEvery + 1}) \X (1..MaxBrowsers) :
        r[1] * r[2] <= MaxWork}

validate_iterations(v) == ~(v <= 0 \/ v > IterationsLimit)
validate_parallel_browsers(v) == ~(v < 1 \/ v > BrowsersLimit)

(* ------------------- Python dict, in insertion order ------------------ *)
\* A dict is a sequence of [k, v] records with distinct keys.

Keys(d) == {d[j].k : j \in 1..Len(d)}
Has(d, key) == key \in Keys(d)
IndexOf(d, key) == CHOOSE j \in 1..Len(d) : d[j].k = key
Get(d, key) == d[IndexOf(d, key)].v
\* d[key] = val: an existing key keeps its place, a new one goes last
Put(d, key, val) ==
    IF Has(d, key)
    THEN [d EXCEPT ![IndexOf(d, key)] = [k |-> key, v |-> val]]
    ELSE Append(d, [k |-> key, v |-> val])
\* del d[key], for a key that is present
Del(d, key) ==
    LET j == IndexOf(d, key)
    IN  SubSeq(d, 1, j - 1) \o SubSeq(d, j + 1, Len(d))

SeqToSet(s) == {s[j] : j \in 1..Len(s)}

(* --------------------- the split of the iterations -------------------- *)

iterations_per_worker(iterations, parallel_browsers) ==
    iterations \div parallel_browsers

remainder(iterations, parallel_browsers) == iterations % parallel_browsers

\* a variant of line 232 that drops the remainder
iters_mut_no_remainder(i, iterations, parallel_browsers) ==
    iterations_per_worker(iterations, parallel_browsers)

\* a variant of line 232 that gives every worker the extra iteration
iters_mut_everyone_extra(i, iterations, parallel_browsers) ==
    iterations_per_worker(iterations, parallel_browsers) + 1

\* line 232: iters of the worker submitted in round i
\* (i = 0 .. parallel_browsers-1)
iters(i, iterations, parallel_browsers) ==
    iterations_per_worker(iterations, parallel_browsers)
        + (IF i < remainder(iterations, parallel_browsers) THEN 1 ELSE 0)

(* ----------------------------- the state ------------------------------ *)

VARIABLES
    now,                \* int(time.time()), in seconds
    nbots,              \* start requests accepted so far; bot b is the b-th
    bot_task,           \* bot -> the task_id start_bot gave it
    bot_iterations,     \* bot -> self.iterations
    bot_browsers,       \* bot -> self.parallel_browsers
    current_iteration,  \* bot -> self.current_iteration
    running_tasks,      \* dict task_id -> {status, current, total, message}
    task_stop_flags,    \* dict task_id -> bool
    active_drivers,     \* dict task_id -> list of drivers
    drv,                \* driver -> "none" | "open" | "closed"; worker <<b, w>>'s
                        \* driver is <<b, w>>
    rpc,                \* bot -> where its run() thread is
    rspawned,           \* bot -> workers submitted to the pool
    rfailed,            \* bot -> an exception is propagating in run()'s try
    rstopped,           \* bot -> what task_stop_flags.get(task_id, False) returned
    wpc,                \* driver (worker) -> where the worker is
    wi,                 \* worker -> iterations of its loop completed
    wcur,               \* worker -> its local "current"
    wres,               \* worker -> its return value: "completed" | "error"
    wbroke,             \* worker -> it left the loop at the stop-flag break
    h,                  \* the request the event loop is handling, up to its response
    stop_accepted,      \* task_id -> a stop_bot saw status 'running' (history)
    split,              \* SplitSpec: the loop of lines 230-233 on its own
    counter_lock,       \* CounterSpec: bot -> the worker holding
                        \* self.counter_lock, or "free"
    swept,              \* SweepSpec: where a pair of successive cleanup
                        \* requests stands (history)
    stop_returned,      \* StopSpec: task_id -> an accepted stop_bot has
                        \* returned (history)
    further             \* StopSpec: worker -> iterations it has completed
                        \* since then (history)

vars == <<now, nbots, bot_task, bot_iterations, bot_browsers, current_iteration,
          running_tasks, task_stop_flags, active_drivers, drv,
          rpc, rspawned, rfailed, rstopped,
          wpc, wi, wcur, wres, wbroke, h, stop_accepted, split,
          counter_lock, swept, stop_returned, further>>

botVars == <<nbots, bot_task, bot_iterations, bot_browsers>>
runVars == <<rpc, rspawned, rfailed, rstopped>>
workerVars == <<wpc, wi, wcur, wres, wbroke>>

\* The lock is taken and released within one step wherever lines 185-187 are
\* one step, and the histories are kept by the specifications that use them:
\* the steps of the program do not mention these variables.
historyVars == <<swept, stop_returned, further>>
extraVars == <<counter_lock, historyVars>>

\* h: op is the endpoint, pc the next statement of its handler ("respond": the
\* handler has returned and the response, with its code, is being sent);
\* items is cleanup_resources' list(active_drivers.items()), closed its
\* closed_count.
Idle == [op |-> "idle", tid |-> 0, pc |-> "idle", code |-> 0,
         items |-> <<>>, closed |-> 0]
Handling(op, tid, pc) == [Idle EXCEPT !.op = op, !.tid = tid, !.pc = pc]
Response(op, tid, code) == [Handling(op, tid, "respond") EXCEPT !.code = code]

NoSplit == [iterations |-> 0, parallel_browsers |-> 0, futures |-> <<>>]

Started(b) == b \in 1..nbots
WorkersOf(b) == 1..bot_browsers[b]
Assignment(b, w) == iters(w - 1, bot_iterations[b], bot_browsers[b])

ServerInit ==
    /\ now = 0
    /\ nbots = 0
    /\ bot_task = [b \in Bots |-> 0]
    /\ bot_iterations = [b \in Bots |-> 0]
    /\ bot_browsers = [b \in Bots |-> 0]
    /\ current_iteration = [b \in Bots |-> 0]
    /\ running_tasks = <<>>
    /\ task_stop_flags = <<>>
    /\ active_drivers = <<>>
    /\ drv = [d \in Drivers |-> "none"]
    /\ rpc = [b \in Bots |-> "idle"]
    /\ rspawned = [b \in Bots |-> 0]
    /\ rfailed = [b \in Bots |-> FALSE]
    /\ rstopped = [b \in Bots |-> FALSE]
    /\ wpc = [d \in Drivers |-> "idle"]
    /\ wi = [d \in Drivers |-> 0]
    /\ wcur = [d \in Drivers |-> 0]
    /\ wres = [d \in Drivers |-> "none"]
    /\ wbroke = [d \in Drivers |-> FALSE]
    /\ h = Idle
    /\ stop_accepted = [t \in TaskIds |-> FALSE]

ExtraInit ==
    /\ counter_lock = [b \in Bots |-> "free"]
    /\ swept = "none"
    /\ stop_returned = [t \in TaskIds |-> FALSE]
    /\ further = [d \in Drivers |-> 0]

Init == ServerInit /\ split = NoSplit /\ ExtraInit

(* ------------------------------ the clock ----------------------------- *)

\* The clock is read by start_bot alone, and only whether two reads are equal
\* matters: seconds are counted from the first start request, and those that
\* pass after the last one change nothing.
Tick ==
    /\ now < MaxClock
    /\ 0 < nbots /\ nbots < MaxStarts
    /\ now' = now + 1
    /\ UNCHANGED <<split, botVars, current_iteration, running_tasks,
                   task_stop_flags, active_drivers, drv, runVars, workerVars,
                   h, stop_accepted>>

(* ------------------- objects held across statements ------------------- *)

\* The list object under active_drivers[tid] leaves the dict (the key is
\* deleted or bound to a new list): a cleanup_resources that holds it keeps
\* the list as it is now, and no worker appends to it any more.
UnlinkItem(it, tid, last) ==
    IF it.live /\ it.k = tid THEN [it EXCEPT !.v = last, !.live = FALSE] ELSE it

ListUnlinked(hh, tid) ==
    IF hh.op = "cleanup" /\ Has(active_drivers, tid)
    THEN [hh EXCEPT !.items =
            [j \in 1..Len(hh.items) |->
                UnlinkItem(hh.items[j], tid, Get(active_drivers, tid))]]
    ELSE hh

\* driver.quit(), and on each driver of a list
QuitOne(st) == "closed"

QuitAll(list) ==
    [d \in Drivers |-> IF d \in SeqToSet(list) THEN QuitOne(drv[d]) ELSE drv[d]]

(* ------------------------------ start_bot ----------------------------- *)

\* task_id = f"task_{int(time.time())}"
task_id_of(t) == t

StartBot(iterations, parallel_browsers) ==
    /\ h.op = "idle"
    /\ nbots < MaxStarts
    /\ validate_iterations(iterations)
    /\ validate_parallel_browsers(parallel_browsers)
    /\ LET b == nbots + 1
           task_id == task_id_of(now)
       IN  /\ nbots' = b
           /\ bot_task' = [bot_task EXCEPT ![b] = task_id]
           /\ bot_iterations' = [bot_iterations EXCEPT ![b] = iterations]
           /\ bot_browsers' = [bot_browsers EXCEPT ![b] = parallel_browsers]
           \* thread.start(): run(task_id) begins in its own thread
           /\ rpc' = [rpc EXCEPT ![b] = "init"]
           /\ h' = Response("start", task_id, 200)
    /\ UNCHANGED <<split, now, current_iteration, running_tasks, task_stop_flags,
                   active_drivers, drv, rspawned, rfailed, rstopped,
                   workerVars, stop_accepted>>

\* the response is sent and the event loop takes the next request
Respond ==
    /\ h.pc = "respond"
    /\ h' = Idle
    /\ UNCHANGED <<split, now, botVars, current_iteration, running_tasks,
                   task_stop_flags, active_drivers, drv, runVars, workerVars,
                   stop_accepted>>

(* ----------------------------- get_status ----------------------------- *)

GetStatus(task_id) ==
    /\ h.op = "idle"
    /\ h' = IF ~Has(running_tasks, task_id)
            THEN Response("status", task_id, 404)
            ELSE Response("status", task_id, 200)
    /\ UNCHANGED <<split, now, botVars, current_iteration, running_tasks,
                   task_stop_flags, active_drivers, drv, runVars, workerVars,
                   stop_accepted>>

(* ------------------------------ stop_bot ------------------------------ *)

\* a variant of lines 318-322 that answers an unknown task_id like a task
\* that is not running
StopBeginMut_UnknownIsNoOp(task_id) ==
    /\ h.op = "idle"
    /\ IF Has(running_tasks, task_id)
          /\ Get(running_tasks, task_id).status = "running"
       THEN /\ h' = Handling("stop", task_id, "set_flag")
            /\ stop_accepted' = [stop_accepted EXCEPT ![task_id] = TRUE]
       ELSE /\ h' = Response("stop", task_id, 200)
            /\ UNCHANGED stop_accepted
    /\ UNCHANGED <<split, now, botVars, current_iteration, running_tasks,
                   task_stop_flags, active_drivers, drv, runVars, workerVars>>

\* lines 318-322: the 404 check and the read of the status
StopBegin(task_id) ==
    /\ h.op = "idle"
    /\ IF ~Has(running_tasks, task_id)
       THEN /\ h' = Response("stop", task_id, 404)
            /\ UNCHANGED stop_accepted
       ELSE IF Get(running_tasks, task_id).status = "running"
       THEN /\ h' = Handling("stop", task_id, "set_flag")
            /\ stop_accepted' = [stop_accepted EXCEPT ![task_id] = TRUE]
       ELSE /\ h' = Response("stop", task_id, 200)
            /\ UNCHANGED stop_accepted
    /\ UNCHANGED <<split, now, botVars, current_iteration, running_tasks,
                   task_stop_flags, active_drivers, drv, runVars, workerVars>>

\* line 323
StopSetFlag ==
    /\ h.op = "stop" /\ h.pc = "set_flag"
    /\ task_stop_flags' = Put(task_stop_flags, h.tid, TRUE)
    /\ h' = [h EXCEPT !.pc = "status_store"]
    /\ UNCHANGED <<split, now, botVars, current_iteration, running_tasks,
                   active_drivers, drv, runVars, workerVars, stop_accepted>>

\* lines 324 and 325: running_tasks[task_id][field] = value, a store into the
\* dict that is in the registry.  (Were the entry replaced between the
\* subscript and the store, the store would go to the replaced dict, which no
\* one reads: the registry is then as if the store had come just before the
\* replacement, which is one of the orders of these steps.)
StoreField(entry, pc) ==
    IF pc = "status_store" THEN [entry EXCEPT !.status = "stopping"]
    ELSE [entry EXCEPT !.message = "stopping"]

StopStore ==
    /\ h.op = "stop" /\ h.pc \in {"status_store", "message_store"}
    /\ running_tasks' = Put(running_tasks, h.tid,
                            StoreField(Get(running_tasks, h.tid), h.pc))
    /\ h' = [h EXCEPT !.pc = IF h.pc = "status_store" THEN "message_store"
                             ELSE "drivers_check"]
    /\ UNCHANGED <<split, now, botVars, current_iteration, task_stop_flags,
                   active_drivers, drv, runVars, workerVars, stop_accepted>>

\* line 328
StopDriversCheck ==
    /\ h.op = "stop" /\ h.pc = "drivers_check"
    /\ h' = IF Has(active_drivers, h.tid)
            THEN [h EXCEPT !.pc = "drivers_quit"]
            ELSE Response("stop", h.tid, 200)
    /\ UNCHANGED <<split, now, botVars, current_iteration, running_tasks,
                   task_stop_flags, active_drivers, drv, runVars, workerVars,
                   stop_accepted>>

\* lines 329-334; active_drivers[task_id] raises KeyError when the key has
\* been deleted since line 328, and the request fails
StopDriversQuit ==
    /\ h.op = "stop" /\ h.pc = "drivers_quit"
    /\ IF Has(active_drivers, h.tid)
       THEN /\ drv' = QuitAll(Get(active_drivers, h.tid))
            /\ h' = Response("stop", h.tid, 200)
       ELSE /\ drv' = drv
            /\ h' = Response("stop", h.tid, 500)
    /\ UNCHANGED <<split, now, botVars, current_iteration, running_tasks,
                   task_stop_flags, active_drivers, runVars, workerVars,
                   stop_accepted>>

(* ---------------------------- ViewerBot.run --------------------------- *)

Snapshot(status, current, total, message) ==
    [status |-> status, current |-> current, total |-> total,
     message |-> message]

\* lines 212-213
RunInit(b) ==
    /\ rpc[b] = "init"
    /\ task_stop_flags' = Put(task_stop_flags, bot_task[b], FALSE)
    /\ rpc' = [rpc EXCEPT ![b] = "register"]
    /\ UNCHANGED <<split, now, botVars, current_iteration, running_tasks,
                   active_drivers, drv, rspawned, rfailed, rstopped,
                   workerVars, h, stop_accepted>>

\* lines 215-233: the task is registered and the first n workers are
\* submitted to the pool, which touches no shared state.  With
\* n = parallel_browsers the loop ends; with fewer, executor.submit raised
\* (no thread could be started) and the exception leaves the with-block,
\* which waits for the workers already submitted.
RunRegister(b, n) ==
    /\ rpc[b] = "register"
    /\ n \in 0..bot_browsers[b]
    /\ running_tasks' = Put(running_tasks, bot_task[b],
            Snapshot("running", 0, bot_iterations[b], "starting"))
    /\ rspawned' = [rspawned EXCEPT ![b] = n]
    /\ rfailed' = [rfailed EXCEPT ![b] = (n < bot_browsers[b])]
    /\ wpc' = [d \in Drivers |->
                IF d[1] = b /\ d[2] <= n THEN "start" ELSE wpc[d]]
    /\ rpc' = [rpc EXCEPT ![b] = "join"]
    /\ UNCHANGED <<split, now, botVars, current_iteration, task_stop_flags,
                   active_drivers, drv, rstopped, wi, wcur, wres, wbroke,
                   h, stop_accepted>>

Joined(b) == \A w \in 1..rspawned[b] : wpc[<<b, w>>] = "done"

\* lines 236-241: every future has completed; without an exception,
\* task_stop_flags.get(task_id, False) is read
RunJoin(b) ==
    /\ rpc[b] = "join"
    /\ Joined(b)
    /\ rstopped' = [rstopped EXCEPT ![b] =
            /\ ~rfailed[b]
            /\ Has(task_stop_flags, bot_task[b])
            /\ Get(task_stop_flags, bot_task[b])]
    /\ rpc' = [rpc EXCEPT ![b] = "write"]
    /\ UNCHANGED <<split, now, botVars, current_iteration, running_tasks,
                   task_stop_flags, active_drivers, drv, rspawned, rfailed,
                   workerVars, h, stop_accepted>>

\* a variant of lines 241-265 in which a worker's error result makes the task
\* an error
TerminalMut_ErrorOnWorkerFailure(b) ==
    IF rfailed[b] \/ \E w \in 1..rspawned[b] : wres[<<b, w>>] = "error"
    THEN Snapshot("error", current_iteration[b], bot_iterations[b], "error")
    ELSE IF rstopped[b]
    THEN Snapshot("stopped", current_iteration[b], bot_iterations[b], "stopped")
    ELSE Snapshot("completed", bot_iterations[b], bot_iterations[b], "completed")

\* a variant of line 251 that writes the counter, as lines 244 and 262 do
TerminalMut_CompletedCounter(b) ==
    IF rfailed[b]
    THEN Snapshot("error", current_iteration[b], bot_iterations[b], "error")
    ELSE IF rstopped[b]
    THEN Snapshot("stopped", current_iteration[b], bot_iterations[b], "stopped")
    ELSE Snapshot("completed", current_iteration[b], bot_iterations[b],
                  "completed")

\* lines 241-254 and 258-265: the snapshot run() writes at the end
Terminal(b) ==
    IF rfailed[b]
    THEN Snapshot("error", current_iteration[b], bot_iterations[b], "error")
    ELSE IF rstopped[b]
    THEN Snapshot("stopped", current_iteration[b], bot_iterations[b], "stopped")
    ELSE Snapshot("completed", bot_iterations[b], bot_iterations[b], "completed")

RunWrite(b) ==
    /\ rpc[b] = "write"
    /\ running_tasks' = Put(running_tasks, bot_task[b], Terminal(b))
    /\ rpc' = [rpc EXCEPT ![b] = "drivers_check"]
    /\ UNCHANGED <<split, now, botVars, current_iteration, task_stop_flags,
                   active_drivers, drv, rspawned, rfailed, rstopped,
                   workerVars, h, stop_accepted>>

\* line 268
RunDriversCheck(b) ==
    /\ rpc[b] = "drivers_check"
    /\ rpc' = [rpc EXCEPT ![b] =
            IF Has(active_drivers, bot_task[b]) THEN "drivers_quit"
            ELSE "flag_check"]
    /\ UNCHANGED <<split, now, botVars, current_iteration, running_tasks,
                   task_stop_flags, active_drivers, drv, rspawned, rfailed,
                   rstopped, workerVars, h, stop_accepted>>

\* lines 269-273; a KeyError in the finally block ends the thread
RunDriversQuit(b) ==
    /\ rpc[b] = "drivers_quit"
    /\ IF Has(active_drivers, bot_task[b])
       THEN /\ drv' = QuitAll(Get(active_drivers, bot_task[b]))
            /\ rpc' = [rpc EXCEPT ![b] = "drivers_del"]
       ELSE /\ drv' = drv
            /\ rpc' = [rpc EXCEPT ![b] = "crashed"]
    /\ UNCHANGED <<split, now, botVars, current_iteration, running_tasks,
                   task_stop_flags, active_drivers, rspawned, rfailed,
                   rstopped, workerVars, h, stop_accepted>>

\* line 274
RunDriversDel(b) ==
    /\ rpc[b] = "drivers_del"
    /\ IF Has(active_drivers, bot_task[b])
       THEN /\ active_drivers' = Del(active_drivers, bot_task[b])
            /\ h' = ListUnlinked(h, bot_task[b])
            /\ rpc' = [rpc EXCEPT ![b] = "flag_check"]
       ELSE /\ UNCHANGED <<active_drivers, h>>
            /\ rpc' = [rpc EXCEPT ![b] = "crashed"]
    /\ UNCHANGED <<split, now, botVars, current_iteration, running_tasks,
                   task_stop_flags, drv, rspawned, rfailed, rstopped,
                   workerVars, stop_accepted>>

\* line 276
RunFlagCheck(b) ==
    /\ rpc[b] = "flag_check"
    /\ rpc' = [rpc EXCEPT ![b] =
            IF Has(task_stop_flags, bot_task[b]) THEN "flag_del" ELSE "done"]
    /\ UNCHANGED <<split, now, botVars, current_iteration, running_tasks,
                   task_stop_flags, active_drivers, drv, rspawned, rfailed,
                   rstopped, workerVars, h, stop_accepted>>

\* line 277
RunFlagDel(b) ==
    /\ rpc[b] = "flag_del"
    /\ IF Has(task_stop_flags, bot_task[b])
       THEN /\ task_stop_flags' = Del(task_stop_flags, bot_task[b])
            /\ rpc' = [rpc EXCEPT ![b] = "done"]
       ELSE /\ UNCHANGED task_stop_flags
            /\ rpc' = [rpc EXCEPT ![b] = "crashed"]
    /\ UNCHANGED <<split, now, botVars, current_iteration, running_tasks,
                   active_drivers, drv, rspawned, rfailed, rstopped,
                   workerVars, h, stop_accepted>>

(* --------------------------- ViewerBot.worker -------------------------- *)

\* The worker of bot b submitted in round w-1 is <<b, w>>; the driver it
\* opens has the same name.

\* A call on the worker's own driver: it raises when the driver has been quit
\* by another thread, and may raise on its own (WebDriverException).
SessionOutcomes(d) ==
    IF drv[d] = "closed" THEN {"raise"} ELSE {"ok", "raise"}

\* return (lines 198, 202) through the finally block (lines 203-208)
WorkerReturn(d, result, broke) ==
    /\ wres' = [wres EXCEPT ![d] = result]
    /\ wbroke' = [wbroke EXCEPT ![d] = broke]
    /\ wpc' = [wpc EXCEPT ![d] = "done"]
    /\ drv' = IF drv[d] = "none" THEN drv
              ELSE [drv EXCEPT ![d] = QuitOne(drv[d])]

\* lines 146-157: webdriver.Chrome(...) and the test "task_id not in
\* active_drivers"; the new driver is known to no other thread yet
WorkerOpen(d, opened) ==
    /\ wpc[d] = "start"
    /\ IF opened
       THEN /\ drv' = [drv EXCEPT ![d] = "open"]
            /\ wpc' = [wpc EXCEPT ![d] =
                    IF Has(active_drivers, bot_task[d[1]]) THEN "reg_append"
                    ELSE "reg_create"]
            /\ UNCHANGED <<wres, wbroke>>
       ELSE WorkerReturn(d, "error", FALSE)
    /\ UNCHANGED <<split, now, botVars, current_iteration, running_tasks,
                   task_stop_flags, active_drivers, runVars, wi, wcur, h,
                   stop_accepted>>

\* line 158
WorkerRegCreate(d) ==
    /\ wpc[d] = "reg_create"
    /\ active_drivers' = Put(active_drivers, bot_task[d[1]], <<>>)
    /\ h' = ListUnlinked(h, bot_task[d[1]])
    /\ wpc' = [wpc EXCEPT ![d] = "reg_append"]
    /\ UNCHANGED <<split, now, botVars, current_iteration, running_tasks,
                   task_stop_flags, drv, runVars, wi, wcur, wres, wbroke,
                   stop_accepted>>

\* lines 159-162: active_drivers[task_id] raises KeyError when the key is
\* gone; then execute_script on the driver just registered, which may raise
\* (a driver that another thread quits before the script is sent raises too)
WorkerRegAppend(d, outcome) ==
    /\ wpc[d] = "reg_append"
    /\ IF Has(active_drivers, bot_task[d[1]])
       THEN /\ active_drivers' = Put(active_drivers, bot_task[d[1]],
                    Append(Get(active_drivers, bot_task[d[1]]), d))
            /\ IF outcome = "ok"
               THEN /\ wpc' = [wpc EXCEPT ![d] = "loop"]
                    /\ UNCHANGED <<drv, wres, wbroke>>
               ELSE WorkerReturn(d, "error", FALSE)
       ELSE /\ outcome = "raise"
            /\ UNCHANGED active_drivers
            /\ WorkerReturn(d, "error", FALSE)
    /\ UNCHANGED <<split, now, botVars, current_iteration, running_tasks,
                   task_stop_flags, runVars, wi, wcur, h, stop_accepted>>

StopRequested(task_id) ==
    Has(task_stop_flags, task_id) /\ Get(task_stop_flags, task_id)

\* lines 164-168: the loop head and the stop-flag check
WorkerLoop(d) ==
    /\ wpc[d] = "loop"
    /\ IF wi[d] >= Assignment(d[1], d[2])
       THEN WorkerReturn(d, "completed", FALSE)
       ELSE IF StopRequested(bot_task[d[1]])
       THEN WorkerReturn(d, "completed", TRUE)
       ELSE /\ wpc' = [wpc EXCEPT ![d] = "visit"]
            /\ UNCHANGED <<drv, wres, wbroke>>
    /\ UNCHANGED <<split, now, botVars, current_iteration, running_tasks,
                   task_stop_flags, active_drivers, runVars, wi, wcur, h,
                   stop_accepted>>

\* line 190
PublishDue(current, iterations) ==
    current % ProgressEvery = 0 \/ current = iterations

\* lines 171-190: driver.get(self.url), the counter under counter_lock, and
\* the test of line 190.  (The scroll of lines 177-182 swallows its own
\* exceptions and changes nothing.)
WorkerVisit(d, outcome) ==
    /\ wpc[d] = "visit"
    /\ outcome \in SessionOutcomes(d)
    /\ IF outcome = "ok"
       THEN LET current == current_iteration[d[1]] + 1
            IN  /\ current_iteration' =
                        [current_iteration EXCEPT ![d[1]] = current]
                \* "current" is read again only by the publish
                /\ wcur' = [wcur EXCEPT ![d] =
                        IF PublishDue(current, bot_iterations[d[1]])
                        THEN current ELSE 0]
                /\ wi' = [wi EXCEPT ![d] = wi[d] + 1]
                /\ wpc' = [wpc EXCEPT ![d] =
                        IF PublishDue(current, bot_iterations[d[1]])
                        THEN "publish" ELSE "loop"]
                /\ UNCHANGED <<drv, wres, wbroke>>
       ELSE /\ WorkerReturn(d, "error", FALSE)
            /\ UNCHANGED <<current_iteration, wcur, wi>>
    /\ UNCHANGED <<split, now, botVars, running_tasks, task_stop_flags,
                   active_drivers, runVars, h, stop_accepted>>

\* lines 191-196
WorkerPublish(d) ==
    /\ wpc[d] = "publish"
    /\ running_tasks' = Put(running_tasks, bot_task[d[1]],
            Snapshot("running", wcur[d], bot_iterations[d[1]], "visit"))
    /\ wpc' = [wpc EXCEPT ![d] = "loop"]
    /\ wcur' = [wcur EXCEPT ![d] = 0]
    /\ UNCHANGED <<split, now, botVars, current_iteration, task_stop_flags,
                   active_drivers, drv, runVars, wi, wres, wbroke, h,
                   stop_accepted>>

(* -------------------------- cleanup_resources ------------------------- *)

\* line 349: list(active_drivers.items()), each list object still in the dict
\* (v is the list's content once it has left the dict)
Items(d) == [j \in 1..Len(d) |-> [k |-> d[j].k, v |-> <<>>, live |-> TRUE]]

CleanupBegin ==
    /\ h.op = "idle"
    /\ h' = IF active_drivers = <<>>
            THEN Response("cleanup", 0, 200)
            ELSE [Handling("cleanup", 0, "quit")
                    EXCEPT !.items = Items(active_drivers)]
    /\ UNCHANGED <<split, now, botVars, current_iteration, running_tasks,
                   task_stop_flags, active_drivers, drv, runVars, workerVars,
                   stop_accepted>>

\* the list object the loop holds: the one in the dict while it is there
HeldList(it) == IF it.live THEN Get(active_drivers, it.k) ELSE it.v

\* lines 350-358: every driver of the task is quit and counted
CleanupQuit ==
    /\ h.op = "cleanup" /\ h.pc = "quit"
    /\ LET list == HeldList(Head(h.items))
       IN  /\ drv' = QuitAll(list)
           /\ h' = [h EXCEPT !.closed = h.closed + Len(list), !.pc = "del"]
    /\ UNCHANGED <<split, now, botVars, current_iteration, running_tasks,
                   task_stop_flags, active_drivers, runVars, workerVars,
                   stop_accepted>>

\* line 369, then the next item or the response of lines 371-375; a KeyError
\* fails the request
CleanupDel ==
    /\ h.op = "cleanup" /\ h.pc = "del"
    /\ LET task_id == Head(h.items).k
           rest == Tail(h.items)
       IN  IF Has(active_drivers, task_id)
           THEN /\ active_drivers' = Del(active_drivers, task_id)
                /\ h' = IF rest = <<>>
                        THEN [Response("cleanup", 0, 200)
                                EXCEPT !.closed = h.closed]
                        ELSE [h EXCEPT !.items = rest, !.pc = "quit"]
           ELSE /\ UNCHANGED active_drivers
                /\ h' = Response("cleanup", 0, 500)
    /\ UNCHANGED <<split, now, botVars, current_iteration, running_tasks,
                   task_stop_flags, drv, runVars, workerVars, stop_accepted>>

(* -------------------------- the specifications ------------------------ *)

\* the endpoints other than start and cleanup
Requests_StatusStop ==
    \/ Respond
    \/ \E task_id \in TaskIds : GetStatus(task_id)
    \/ \E task_id \in TaskIds : StopBegin(task_id)
    \/ StopSetFlag
    \/ StopStore
    \/ StopDriversCheck
    \/ StopDriversQuit

Cleanup ==
    \/ CleanupBegin
    \/ CleanupQuit
    \/ CleanupDel

\* the threads of the bots
Threads ==
    \/ \E b \in Bots :
        \/ RunInit(b)
        \/ \E n \in 0..MaxBrowsers : RunRegister(b, n)
        \/ RunJoin(b)
        \/ RunWrite(b)
        \/ RunDriversCheck(b)
        \/ RunDriversQuit(b)
        \/ RunDriversDel(b)
        \/ RunFlagCheck(b)
        \/ RunFlagDel(b)
    \/ \E d \in Drivers :
        \/ \E opened \in BOOLEAN : WorkerOpen(d, opened)
        \/ WorkerRegCreate(d)
        \/ \E outcome \in {"ok", "raise"} : WorkerRegAppend(d, outcome)
        \/ WorkerLoop(d)
        \/ \E outcome \in {"ok", "raise"} : WorkerVisit(d, outcome)
        \/ WorkerPublish(d)

\* Spec: the server and one task.  One start request is served, and any
\* number of status, stop and cleanup requests, before, while and after the
\* task runs.
Next ==
    \/ \E r \in Requests : nbots = 0 /\ StartBot(r[1], r[2])
    \/ Requests_StatusStop
    \/ Cleanup
    \/ Threads

Spec == Init /\ [][Next /\ UNCHANGED extraVars]_vars

\* MultiSpec: up to MaxStarts start requests, each for one visit by one
\* browser, in the same second or in different ones, with status and stop
\* requests.
MultiNext ==
    \/ Tick
    \/ StartBot(1, 1)
    \/ Requests_StatusStop
    \/ Threads

MultiSpec == Init /\ [][MultiNext /\ UNCHANGED extraVars]_vars

\* FairSpec: Spec with every thread scheduled again and again, each call on a
\* session returning (with or without an exception), and every request that
\* is being handled handled to its end.
Fairness ==
    /\ \A b \in Bots :
        /\ WF_vars(RunInit(b) /\ UNCHANGED extraVars)
        /\ WF_vars((\E n \in 0..MaxBrowsers : RunRegister(b, n))
                    /\ UNCHANGED extraVars)
        /\ WF_vars(RunJoin(b) /\ UNCHANGED extraVars)
        /\ WF_vars(RunWrite(b) /\ UNCHANGED extraVars)
        /\ WF_vars(RunDriversCheck(b) /\ UNCHANGED extraVars)
        /\ WF_vars(RunDriversQuit(b) /\ UNCHANGED extraVars)
        /\ WF_vars(RunDriversDel(b) /\ UNCHANGED extraVars)
        /\ WF_vars(RunFlagCheck(b) /\ UNCHANGED extraVars)
        /\ WF_vars(RunFlagDel(b) /\ UNCHANGED extraVars)
    /\ \A d \in Drivers :
        /\ WF_vars((\E opened \in BOOLEAN : WorkerOpen(d, opened))
                    /\ UNCHANGED extraVars)
        /\ WF_vars(WorkerRegCreate(d) /\ UNCHANGED extraVars)
        /\ WF_vars((\E outcome \in {"ok", "raise"} : WorkerRegAppend(d, outcome))
                    /\ UNCHANGED extraVars)
        /\ WF_vars(WorkerLoop(d) /\ UNCHANGED extraVars)
        /\ WF_vars((\E outcome \in {"ok", "raise"} : WorkerVisit(d, outcome))
                    /\ UNCHANGED extraVars)
        /\ WF_vars(WorkerPublish(d) /\ UNCHANGED extraVars)
    /\ WF_vars(Respond /\ UNCHANGED extraVars)
    /\ WF_vars(StopSetFlag /\ UNCHANGED extraVars)
    /\ WF_vars(StopStore /\ UNCHANGED extraVars)
    /\ WF_vars(StopDriversCheck /\ UNCHANGED extraVars)
    /\ WF_vars(StopDriversQuit /\ UNCHANGED extraVars)
    /\ WF_vars(CleanupQuit /\ UNCHANGED extraVars)
    /\ WF_vars(CleanupDel /\ UNCHANGED extraVars)

FairSpec == Spec /\ Fairness

\* SplitSpec: the split of run() (lines 225-233; the same statements are
\* lines 67-75 of try_fast.py) for every request the validators accept up to
\* MaxSplit iterations.
SplitInit ==
    /\ ServerInit
    /\ ExtraInit
    /\ \E iterations \in 1..MaxSplit, parallel_browsers \in 1..BrowsersLimit :
        /\ validate_iterations(iterations)
        /\ validate_parallel_browsers(parallel_browsers)
        /\ split = [iterations |-> iterations,
                    parallel_browsers |-> parallel_browsers,
                    futures |-> <<>>]

\* one round of "for i in range(self.parallel_browsers)": the iters of
\* worker i + 1 are fixed and the worker is submitted
SplitSubmit ==
    /\ Len(split.futures) < split.parallel_browsers
    /\ split' = [split EXCEPT !.futures =
            Append(split.futures,
                   iters(Len(split.futures), split.iterations,
                         split.parallel_browsers))]
    /\ UNCHANGED <<now, botVars, current_iteration, running_tasks,
                   task_stop_flags, active_drivers, drv, runVars, workerVars,
                   h, stop_accepted>>

SplitSpec == SplitInit /\ [][SplitSubmit /\ UNCHANGED extraVars]_vars

(* ---------------- lines 171-190, statement by statement --------------- *)

\* WorkerVisit is one step for lines 171-190.  Here the same lines are taken
\* apart: driver.get, the acquisition of self.counter_lock, the read and the
\* write of "self.current_iteration += 1", the read of "current", and the
\* release of the lock with the test of line 190.

\* lines 171-182
VisitGet(d, outcome) ==
    /\ wpc[d] = "visit"
    /\ outcome \in SessionOutcomes(d)
    /\ IF outcome = "ok"
       THEN /\ wpc' = [wpc EXCEPT ![d] = "acquire"]
            /\ UNCHANGED <<drv, wres, wbroke>>
       ELSE WorkerReturn(d, "error", FALSE)
    /\ UNCHANGED <<split, now, botVars, current_iteration, running_tasks,
                   task_stop_flags, active_drivers, runVars, wi, wcur, h,
                   stop_accepted, extraVars>>

\* a variant of line 185 without the lock
CounterAcquireMut_NoLock(d) ==
    /\ wpc[d] = "acquire"
    /\ counter_lock' = [counter_lock EXCEPT ![d[1]] = d]
    /\ wpc' = [wpc EXCEPT ![d] = "load"]
    /\ UNCHANGED <<split, now, botVars, current_iteration, running_tasks,
                   task_stop_flags, active_drivers, drv, runVars, wi, wcur,
                   wres, wbroke, h, stop_accepted, historyVars>>

\* line 185: with self.counter_lock
CounterAcquire(d) ==
    /\ wpc[d] = "acquire"
    /\ counter_lock[d[1]] = "free"
    /\ counter_lock' = [counter_lock EXCEPT ![d[1]] = d]
    /\ wpc' = [wpc EXCEPT ![d] = "load"]
    /\ UNCHANGED <<split, now, botVars, current_iteration, running_tasks,
                   task_stop_flags, active_drivers, drv, runVars, wi, wcur,
                   wres, wbroke, h, stop_accepted, historyVars>>

\* line 186, the read of self.current_iteration
CounterLoad(d) ==
    /\ wpc[d] = "load"
    /\ wcur' = [wcur EXCEPT ![d] = current_iteration[d[1]]]
    /\ wpc' = [wpc EXCEPT ![d] = "store"]
    /\ UNCHANGED <<split, now, botVars, current_iteration, running_tasks,
                   task_stop_flags, active_drivers, drv, runVars, wi, wres,
                   wbroke, h, stop_accepted, extraVars>>

\* line 186, the write of the value read plus one
CounterStore(d) ==
    /\ wpc[d] = "store"
    /\ current_iteration' = [current_iteration EXCEPT ![d[1]] = wcur[d] + 1]
    /\ wpc' = [wpc EXCEPT ![d] = "read"]
    /\ UNCHANGED <<split, now, botVars, running_tasks, task_stop_flags,
                   active_drivers, drv, runVars, wi, wcur, wres, wbroke, h,
                   stop_accepted, extraVars>>

\* line 187: current = self.current_iteration
CounterRead(d) ==
    /\ wpc[d] = "read"
    /\ wcur' = [wcur EXCEPT ![d] = current_iteration[d[1]]]
    /\ wpc' = [wpc EXCEPT ![d] = "release"]
    /\ UNCHANGED <<split, now, botVars, current_iteration, running_tasks,
                   task_stop_flags, active_drivers, drv, runVars, wi, wres,
                   wbroke, h, stop_accepted, extraVars>>

\* the end of the with-block and the test of line 190
CounterRelease(d) ==
    /\ wpc[d] = "release"
    /\ counter_lock' = [counter_lock EXCEPT ![d[1]] = "free"]
    /\ wi' = [wi EXCEPT ![d] = wi[d] + 1]
    /\ wcur' = [wcur EXCEPT ![d] =
            IF PublishDue(wcur[d], bot_iterations[d[1]]) THEN wcur[d] ELSE 0]
    /\ wpc' = [wpc EXCEPT ![d] =
            IF PublishDue(wcur[d], bot_iterations[d[1]]) THEN "publish"
            ELSE "loop"]
    /\ UNCHANGED <<split, now, botVars, current_iteration, running_tasks,
                   task_stop_flags, active_drivers, drv, runVars, wres,
                   wbroke, h, stop_accepted, historyVars>>

\* the steps of run()
RunSteps(b) ==
    \/ RunInit(b)
    \/ \E n \in 0..MaxBrowsers : RunRegister(b, n)
    \/ RunJoin(b)
    \/ RunWrite(b)
    \/ RunDriversCheck(b)
    \/ RunDriversQuit(b)
    \/ RunDriversDel(b)
    \/ RunFlagCheck(b)
    \/ RunFlagDel(b)

\* CounterSpec: one task and its threads, no request but the start, with
\* lines 171-190 statement by statement.
CounterNext ==
    \/ /\ \E r \in Requests : nbots = 0 /\ StartBot(r[1], r[2])
       /\ UNCHANGED extraVars
    \/ Respond /\ UNCHANGED extraVars
    \/ \E b \in Bots : RunSteps(b) /\ UNCHANGED extraVars
    \/ \E d \in Drivers :
        \/ /\ \E opened \in BOOLEAN : WorkerOpen(d, opened)
           /\ UNCHANGED extraVars
        \/ WorkerRegCreate(d) /\ UNCHANGED extraVars
        \/ /\ \E outcome \in {"ok", "raise"} : WorkerRegAppend(d, outcome)
           /\ UNCHANGED extraVars
        \/ WorkerLoop(d) /\ UNCHANGED extraVars
        \/ \E outcome \in {"ok", "raise"} : VisitGet(d, outcome)
        \/ CounterAcquire(d)
        \/ CounterLoad(d)
        \/ CounterStore(d)
        \/ CounterRead(d)
        \/ CounterRelease(d)
        \/ WorkerPublish(d) /\ UNCHANGED extraVars

CounterSpec == Init /\ [][CounterNext]_vars

(* ------------------- successive cleanup requests ---------------------- *)

\* swept after a step: "first" while a cleanup request is handled,
\* "between" from its response on, "second" while the next one is handled and
\* until its response is sent.  A worker that registers a session (line 159)
\* sets it back to "none": the next cleanup request is a first one again.
SweptAfter ==
    IF \E d \in Drivers :
            /\ wpc[d] = "reg_append" /\ wpc'[d] # "reg_append"
            /\ active_drivers' # active_drivers
    THEN "none"
    ELSE IF h.op = "idle" /\ h'.op = "cleanup"
    THEN IF swept = "between" THEN "second"
         ELSE IF h'.pc = "respond" THEN "between" ELSE "first"
    ELSE IF h.op = "cleanup" /\ h.pc # "respond" /\ h'.pc = "respond"
    THEN IF swept = "first" THEN "between" ELSE swept
    ELSE IF h.op = "cleanup" /\ h.pc = "respond" /\ h'.op = "idle"
    THEN IF swept = "second" THEN "between" ELSE swept
    ELSE swept

\* SweepSpec: up to MaxStarts tasks of one visit by one browser, started in
\* the same second or not, and cleanup requests.
SweepNext ==
    /\ \/ Tick
       \/ StartBot(1, 1)
       \/ Respond
       \/ Cleanup
       \/ Threads
    /\ swept' = SweptAfter
    /\ UNCHANGED <<counter_lock, stop_returned, further>>

SweepSpec == Init /\ [][SweepNext]_vars

(* ----------------------- iterations after a stop ---------------------- *)

\* stop_returned after a step: stop_bot returns from its force-close part
\* (lines 328-336), which only an accepted stop reaches
StopReturnedAfter ==
    [t \in TaskIds |->
        \/ stop_returned[t]
        \/ /\ h.op = "stop" /\ h.tid = t
           /\ h.pc \in {"drivers_check", "drivers_quit"}
           /\ h'.pc = "respond"]

\* further after a step: a worker that completes an iteration (lines 171-187)
\* once an accepted stop of its task has returned has completed one more
FurtherAfter ==
    [d \in Drivers |->
        IF wi'[d] > wi[d] /\ stop_returned[bot_task[d[1]]]
                /\ further[d] < MaxFurther
        THEN further[d] + 1 ELSE further[d]]

\* StopSpec: up to MaxStarts tasks of MaxShort visits by one browser, started
\* in the same second, and stop requests.
StopNext ==
    /\ \/ StartBot(MaxShort, 1)
       \/ Respond
       \/ \E task_id \in TaskIds : StopBegin(task_id)
       \/ StopSetFlag
       \/ StopStore
       \/ StopDriversCheck
       \/ StopDriversQuit
       \/ Threads
    /\ stop_returned' = StopReturnedAfter
    /\ further' = FurtherAfter
    /\ UNCHANGED <<counter_lock, swept>>

StopSpec == Init /\ [][StopNext]_vars

(* ------------------------------ the claims ---------------------------- *)

Entry(task_id) == Get(running_tasks, task_id)

\* The event loop is free: a status request sent now is served now and
\* returns the registry entry as it is in this state.
Observable == h.op = "idle"

\* run() of bot b has written its terminal snapshot
PostWrite == {"drivers_check", "drivers_quit", "drivers_del", "flag_check",
              "flag_del", "done", "crashed"}

RECURSIVE SumSeq(_)
SumSeq(q) == IF q = <<>> THEN 0 ELSE Head(q) + SumSeq(Tail(q))

MinSeq(q) == CHOOSE m \in SeqToSet(q) : \A x \in SeqToSet(q) : m <= x

\* C1: once a stop request has found the task's status 'running' (the stop is
\* accepted), the task is never published as 'completed'.
C1_AcceptedStopNeverCompleted ==
    \A task_id \in TaskIds :
        stop_accepted[task_id] /\ Has(running_tasks, task_id)
            => Entry(task_id).status # "completed"

\* C2: of two snapshots of a task that status requests can return one after
\* the other, the first not terminal, the second carries no smaller
\* 'current'.
C2_CurrentNeverRollsBack ==
    [][\A task_id \in TaskIds :
          /\ Observable /\ Observable'
          /\ Has(running_tasks, task_id)
          /\ Entry(task_id).status \in {"running", "stopping"}
          => Get(running_tasks', task_id).current >= Entry(task_id).current
      ]_vars

\* C3: once a status request can return 'stopping' for a task, no later one
\* returns 'running'.
C3_StoppingNeverRunningAgain ==
    [][\A task_id \in TaskIds :
          /\ Observable /\ Observable'
          /\ Has(running_tasks, task_id)
          /\ Entry(task_id).status = "stopping"
          => Get(running_tasks', task_id).status # "running"
      ]_vars

\* C4: every registered task's snapshot has 0 <= current <= total, whoever
\* wrote it.
C4_CurrentWithinTotal ==
    \A task_id \in TaskIds :
        Has(running_tasks, task_id)
            => /\ 0 <= Entry(task_id).current
               /\ Entry(task_id).current <= Entry(task_id).total

\* a task stopped by the orchestrator's terminal write after partial progress
C4_Witness ==
    \E task_id \in TaskIds :
        /\ Has(running_tasks, task_id)
        /\ Entry(task_id).status = "stopped"
        /\ 0 < Entry(task_id).current
        /\ Entry(task_id).current < Entry(task_id).total

\* C5: when the loop of run() has fixed every worker's iters, they sum to
\* iterations, no two differ by more than 1, and the workers that got more
\* than the least are exactly those of index < iterations % parallel_browsers.
C5_SplitSumsAndBalances ==
    Len(split.futures) = split.parallel_browsers /\ split.parallel_browsers > 0
        => /\ SumSeq(split.futures) = split.iterations
           /\ \A i, j \in 1..Len(split.futures) :
                split.futures[i] - split.futures[j] <= 1
           /\ {i \in 0..(split.parallel_browsers - 1) :
                    split.futures[i + 1] > MinSeq(split.futures)}
              = {i \in 0..(split.parallel_browsers - 1) :
                    i < split.iterations % split.parallel_browsers}

\* 10 iterations over 3 browsers: 4, 3, 3
C5_Witness ==
    /\ split.iterations = 10
    /\ split.parallel_browsers = 3
    /\ split.futures = <<4, 3, 3>>

\* C6: a status request for a task_id that a start request has returned is
\* answered with the snapshot (200), never with "Task not found" (404).
C6_StatusAfterStartFound ==
    /\ h.op = "status" /\ h.pc = "respond"
    /\ \E b \in 1..nbots : bot_task[b] = h.tid
    => h.code = 200

\* C7: two start requests get different task_ids.
C7_TaskIdsDistinct ==
    \A b1, b2 \in 1..nbots : b1 # b2 => bot_task[b1] # bot_task[b2]

\* C8: a started task whose workers were all submitted and on which no stop
\* is accepted is eventually published as 'completed' with current = total.
C8_EventuallyCompleted ==
    (nbots = 1) ~>
        \/ stop_accepted[bot_task[1]]
        \/ rfailed[1]
        \/ /\ Has(running_tasks, bot_task[1])
           /\ Entry(bot_task[1]).status = "completed"
           /\ Entry(bot_task[1]).current = Entry(bot_task[1]).total

\* a task of two workers completed without a stop
C8_Witness ==
    /\ nbots = 1 /\ bot_browsers[1] = 2 /\ rspawned[1] = 2
    /\ ~stop_accepted[bot_task[1]]
    /\ rpc[1] = "done"
    /\ Has(running_tasks, bot_task[1])
    /\ Entry(bot_task[1]).status = "completed"
    /\ Entry(bot_task[1]).current = bot_iterations[1]

\* C9: a worker's failure stays with the worker: a task is published as
\* 'error' only when run() itself failed, and every worker that returned
\* without an exception and without the stop-flag break has done all the
\* iterations assigned to it, whatever happened to the other workers.
C9_WorkerFailureConfined ==
    /\ \A task_id \in TaskIds :
            Has(running_tasks, task_id) /\ Entry(task_id).status = "error"
                => \E b \in 1..nbots : bot_task[b] = task_id /\ rfailed[b]
    /\ \A b \in 1..nbots :
            rpc[b] \in PostWrite /\ ~rfailed[b]
                => Entry(bot_task[b]).status
                        \in {"completed", "stopped", "stopping"}
    /\ \A b \in 1..nbots : \A w \in 1..rspawned[b] :
            /\ wpc[<<b, w>>] = "done"
            /\ wres[<<b, w>>] = "completed"
            /\ ~wbroke[<<b, w>>]
            => wi[<<b, w>>] = Assignment(b, w)

\* one worker could not open its browser, the other did its visits, and the
\* task is published as completed
C9_Witness ==
    /\ nbots = 1 /\ rspawned[1] = 2
    /\ wpc[<<1, 1>>] = "done" /\ wres[<<1, 1>>] = "error"
    /\ drv[<<1, 1>>] = "none"
    /\ wpc[<<1, 2>>] = "done" /\ wres[<<1, 2>>] = "completed"
    /\ wi[<<1, 2>>] = Assignment(1, 2) /\ wi[<<1, 2>>] > 0
    /\ Has(running_tasks, bot_task[1])
    /\ Entry(bot_task[1]).status = "completed"

\* C10: a terminal snapshot 'stopped' or 'completed' carries as 'current' the
\* value the shared counter had when the workers had finished.
C10_TerminalCurrentIsCounter ==
    \A b \in 1..nbots :
        /\ rpc[b] \in PostWrite
        /\ Entry(bot_task[b]).status \in {"stopped", "completed"}
        => Entry(bot_task[b]).current = current_iteration[b]

\* the statuses run() writes at its end
TerminalStatuses == {"stopped", "completed", "error"}

\* the bots that run under task_id
BotsOf(task_id) == {b \in 1..nbots : bot_task[b] = task_id}

\* C11: when a cleanup request is taken up while a task's published status is
\* 'stopped', no session is registered for that task (the task has no list
\* in active_drivers, or an empty one), so the request closes none of its
\* sessions.
C11_StoppedTaskHasNoSessions ==
    [][\A task_id \in TaskIds :
          /\ h.op = "idle" /\ h'.op = "cleanup"
          /\ Has(running_tasks, task_id)
          /\ Entry(task_id).status = "stopped"
          => \/ ~Has(active_drivers, task_id)
             \/ Get(active_drivers, task_id) = <<>>
      ]_vars

\* C13: a status or stop request for a task_id that is not in running_tasks
\* is answered 404 at once, and running_tasks, task_stop_flags and
\* active_drivers are as they were.
C13_UnknownIdNotFound ==
    [][/\ h.op = "idle" /\ h'.op \in {"status", "stop"}
       /\ ~Has(running_tasks, h'.tid)
       => /\ h'.pc = "respond" /\ h'.code = 404
          /\ UNCHANGED <<running_tasks, task_stop_flags, active_drivers>>
      ]_vars

\* a stop request for an unknown id answered 404 while another task is
\* registered
C13_Witness ==
    /\ h.op = "stop" /\ h.pc = "respond" /\ h.code = 404
    /\ running_tasks # <<>>
    /\ ~Has(running_tasks, h.tid)

\* the step calls d.quit(): the worker's finally block (line 205), stop_bot
\* (line 331), run()'s finally block (line 271), cleanup_resources (line 353)
QuitInvoked(d) ==
    \/ wpc[d] # "done" /\ wpc'[d] = "done" /\ drv[d] # "none"
    \/ /\ h.op = "stop" /\ h.pc = "drivers_quit" /\ h'.pc = "respond"
       /\ Has(active_drivers, h.tid)
       /\ d \in SeqToSet(Get(active_drivers, h.tid))
    \/ \E b \in 1..nbots :
        /\ rpc[b] = "drivers_quit" /\ rpc'[b] = "drivers_del"
        /\ d \in SeqToSet(Get(active_drivers, bot_task[b]))
    \/ /\ h.op = "cleanup" /\ h.pc = "quit" /\ h'.pc = "del"
       /\ d \in SeqToSet(HeldList(Head(h.items)))

\* C14: quit() is called on a session only while it is open, so no session is
\* closed a second time.
C14_ClosedExactlyOnce ==
    [][\A d \in Drivers : QuitInvoked(d) => drv[d] = "open"]_vars

\* C16: a task's status becomes terminal only when all its workers have
\* returned, and a snapshot with a terminal status is never changed.
C16_TerminalWrittenLastAndKept ==
    [][/\ \A task_id \in TaskIds :
            /\ Has(running_tasks', task_id)
            /\ Get(running_tasks', task_id).status \in TerminalStatuses
            /\ ~(Has(running_tasks, task_id)
                  /\ Entry(task_id).status \in TerminalStatuses)
            => \A b \in BotsOf(task_id) : \A w \in 1..rspawned[b] :
                  wpc[<<b, w>>] = "done"
       /\ \A t \in TaskIds :
            /\ Has(running_tasks, t)
            /\ Entry(t).status \in TerminalStatuses
            => /\ Has(running_tasks', t)
               /\ Get(running_tasks', t) = Entry(t)
      ]_vars

\* the messages each status is written with
MessagesOf(status) ==
    IF status = "running" THEN {"starting", "visit"} ELSE {status}

\* C17: every snapshot a status request can return has the status and the
\* message of one and the same write.
C17_SnapshotOfOneWrite ==
    Observable =>
        \A task_id \in TaskIds :
            Has(running_tasks, task_id)
                => Entry(task_id).message \in MessagesOf(Entry(task_id).status)

\* a worker thread that has been submitted and has not returned
WorkerRunning(pc) == pc \notin {"idle", "done"}

\* C15: a stop flag that is True stays True (and in task_stop_flags) for as
\* long as a worker of the task is running, so no running worker reads it as
\* false again.
C15_StopFlagStaysTrue ==
    [][\A task_id \in TaskIds :
          /\ StopRequested(task_id)
          /\ \E b \in BotsOf(task_id) : \E w \in Workers :
                WorkerRunning(wpc'[<<b, w>>])
          => /\ Has(task_stop_flags', task_id)
             /\ Get(task_stop_flags', task_id)
      ]_vars

\* visits of worker d that line 186 has counted: the iterations it has
\* completed and the one whose increment it has just written
Counted(d) == wi[d] + (IF wpc[d] \in {"read", "release"} THEN 1 ELSE 0)

RECURSIVE SumCounted(_, _)
SumCounted(b, n) ==
    IF n = 0 THEN 0 ELSE Counted(<<b, n>>) + SumCounted(b, n - 1)

\* C18: self.current_iteration is the number of visits its workers have
\* counted so far, and no more than self.iterations.
C18_CounterIsExact ==
    \A b \in 1..nbots :
        /\ current_iteration[b] = SumCounted(b, MaxBrowsers)
        /\ current_iteration[b] <= bot_iterations[b]

\* two workers have both counted visits: one waits for the lock the other
\* holds after its write
C18_Witness ==
    /\ nbots = 1
    /\ wi[<<1, 1>>] > 0
    /\ wpc[<<1, 1>>] = "acquire"
    /\ wpc[<<1, 2>>] = "read"
    /\ current_iteration[1] >= 2

\* a worker past its registration (lines 157-159) whose thread is running
Registered(pc) ==
    WorkerRunning(pc) /\ pc \notin {"start", "reg_create", "reg_append"}

\* C19: every driver that its worker has registered and that is still open
\* is in active_drivers[task_id], where stop_bot finds it.
C19_NoRegistrationLost ==
    \A b \in 1..nbots : \A w \in Workers :
        Registered(wpc[<<b, w>>]) /\ drv[<<b, w>>] = "open"
            => /\ Has(active_drivers, bot_task[b])
               /\ <<b, w>> \in SeqToSet(Get(active_drivers, bot_task[b]))

\* C12: of two successive cleanup requests with no session registered since
\* the first was taken up, the second closes no session (its closed_count
\* stays 0) and leaves no session in active_drivers.
C12_SecondCleanupClosesNothing ==
    swept = "second" /\ h.op = "cleanup"
        => /\ h.closed = 0
           /\ h.pc = "respond" =>
                \A j \in 1..Len(active_drivers) : active_drivers[j].v = <<>>

\* C20: once an accepted stop of its task has returned, a worker completes
\* at most one more iteration (the one it had begun).
C20_AtMostOneFurtherIteration ==
    \A d \in Drivers : further[d] <= 1

\* C21: with cleanup_resources interleaved with the finally block of run(),
\* neither fails: no run thread ends in an exception (so each one goes on to
\* lines 276-277, where the task's stop flag is removed), and the cleanup
\* request is never answered with an error.
C21_CleanupAndRunBothComplete ==
    /\ \A b \in Bots : rpc[b] # "crashed"
    /\ ~(h.op = "cleanup" /\ h.pc = "respond" /\ h.code = 500)

====
